---- MODULE Spec2Model ----
(***************************************************************************)
(* A model of the finder_info crate: the big-endian codec of the 32-byte   *)
(* com.apple.FinderInfo record (file and folder variants), the bit-packed  *)
(* FinderFlags / ExtendedFinderFlags wrappers and the LabelColor mapping.  *)
(* Bytes are integers 0..255, a byte string is a sequence of bytes, an     *)
(* io::Cursor is a byte string together with a position.                   *)
(***************************************************************************)
EXTENDS Integers, Sequences, FiniteSets, TLC

VARIABLES
  input,      \* the bytes under the read cursor (io::Cursor::new(input))
  pos,        \* the read cursor's position
  res,        \* the outcome of the most recent read: [op, ok, at]
  kind,       \* the type of the value the caller holds ("None" when it holds none)
  rec,        \* the value the caller holds
  out,        \* the in-memory sink (io::Cursor::new(vec![]).into_inner())
  lastColor,  \* history: <<c>> for the most recent set_color(c), <<>> if none
  lastIcon,   \* history: <<v>> for the most recent set_has_custom_icon(v), <<>> if none
  byte,       \* the u8 of a LabelColor conversion
  label,      \* the Option<LabelColor> of a LabelColor conversion
  shown,      \* the last {:?} rendering of the held value (<<>> before any)
  attr,       \* the com.apple.FinderInfo attribute of the CLI's path (<<>>: none)
  isDir,      \* whether the CLI's path is a directory
  cli         \* how the CLI's last run ended and what it handed to setxattr

\* the state of the finderinfo tool and of the rendering, which the codec
\* operations leave alone
aux == <<shown, attr, isDir, cli>>

vars == <<input, pos, res, kind, rec, out, lastColor, lastIcon, byte, label, aux>>

(***************************************************************************)
(* Bounds of the exploration.                                              *)
(***************************************************************************)
\* bytes of input explored beyond a whole record
MaxExtra == 1
\* bytes a sink may already hold when a record is written to it
MaxPrefix == 1

(***************************************************************************)
(* Machine integers.                                                       *)
(***************************************************************************)
U8 == 256
U16 == 65536
\* 2^24: the weight of the top byte of a 32-bit integer
U24 == 16777216

Bytes == 0 .. (U8 - 1)

RECURSIVE BitAnd(_, _)
\* a & b on unsigned integers
BitAnd(a, b) ==
  IF a = 0 \/ b = 0 THEN 0
  ELSE (a % 2) * (b % 2) + 2 * BitAnd(a \div 2, b \div 2)

\* a | b on unsigned integers
BitOr(a, b) == a + b - BitAnd(a, b)

\* !a on a u16
BitNot16(a) == (U16 - 1) - a

\* the cast `x as u8`
AsU8(x) == x % U8

\* the casts u8 -> i8 and u16 <-> i16 (two's complement)
AsI8(u) == IF u >= U8 \div 2 THEN u - U8 ELSE u
AsI16(u) == IF u >= U16 \div 2 THEN u - U16 ELSE u
I16AsU16(v) == (v + U16) % U16

Zeros(n) == [i \in 1 .. n |-> 0]

(***************************************************************************)
(* constants                                                               *)
(***************************************************************************)
kIsOnDesk == 1
kColor == 14
kIsShared == 64
kHasNoINITs == 128
kHasBeenInited == 256
kHasCustomIcon == 1024
kIsStationery == 2048
kNameLocked == 4096
kHasBundle == 8192
kIsInvisible == 16384
kIsAlias == 32768

kExtendedFlagsAreInvalid == 32768
kExtendedFlagHasCustomBadge == 256
kExtendedFlagHasRoutingInfo == 4

(***************************************************************************)
(* LabelColor; an Option<LabelColor> is "None" or the name of a color.     *)
(***************************************************************************)
LabelColor == {"Gray", "Green", "Purple", "Blue", "Yellow", "Red", "Orange"}
OptLabelColor == {"None"} \cup LabelColor

\* from_u8 with the colors numbered 1..7 instead of by their bit pattern
from_u8_numbered(b) ==
  CASE b = 1 -> "Gray"
    [] b = 2 -> "Green"
    [] b = 3 -> "Purple"
    [] b = 4 -> "Blue"
    [] b = 5 -> "Yellow"
    [] b = 6 -> "Red"
    [] b = 7 -> "Orange"
    [] OTHER -> "None"

from_u8(b) ==
  CASE b = 2 -> "Gray"
    [] b = 4 -> "Green"
    [] b = 6 -> "Purple"
    [] b = 8 -> "Blue"
    [] b = 10 -> "Yellow"
    [] b = 12 -> "Red"
    [] b = 14 -> "Orange"
    [] OTHER -> "None"

to_u8(c) ==
  CASE c = "None" -> 0
    [] c = "Gray" -> 2
    [] c = "Green" -> 4
    [] c = "Purple" -> 6
    [] c = "Blue" -> 8
    [] c = "Yellow" -> 10
    [] c = "Red" -> 12
    [] c = "Orange" -> 14

(***************************************************************************)
(* FinderFlags(u16): the value is the raw u16.                             *)
(***************************************************************************)
color(f) == from_u8(AsU8(BitAnd(f, kColor)))

\* set_color clearing the whole low nibble (mask 0x000f)
set_color_wide_mask(f, c) == BitOr(BitAnd(f, BitNot16(kColor + kIsOnDesk)), to_u8(c))

\* set_color that ORs the new color in without clearing the old one
set_color_no_clear(f, c) == BitOr(f, to_u8(c))

set_color(f, c) == BitOr(BitAnd(f, BitNot16(kColor)), to_u8(c))

has_custom_icon(f) == BitAnd(f, kHasCustomIcon) # 0

\* a setter that adds the bit instead of or-ing it in
set_has_custom_icon_add(f, value) ==
  IF value THEN (f + kHasCustomIcon) % U16
  ELSE BitAnd(f, BitNot16(kHasCustomIcon))

set_has_custom_icon(f, value) ==
  IF value THEN BitOr(f, kHasCustomIcon)
  ELSE BitAnd(f, BitNot16(kHasCustomIcon))

is_shared(f) == BitAnd(f, kIsShared) # 0
has_no_inits(f) == BitAnd(f, kHasNoINITs) # 0
has_been_inited(f) == BitAnd(f, kHasBeenInited) # 0
is_stationery(f) == BitAnd(f, kIsStationery) # 0
name_locked(f) == BitAnd(f, kNameLocked) # 0
has_bundle(f) == BitAnd(f, kHasBundle) # 0
is_invisible(f) == BitAnd(f, kIsInvisible) # 0
is_alias(f) == BitAnd(f, kIsAlias) # 0

(***************************************************************************)
(* ExtendedFinderFlags(u16).                                               *)
(***************************************************************************)
are_invalid(f) == BitAnd(f, kExtendedFlagsAreInvalid) # 0
has_custom_badge(f) == BitAnd(f, kExtendedFlagHasCustomBadge) # 0
has_routing_info(f) == BitAnd(f, kExtendedFlagHasRoutingInfo) # 0

(***************************************************************************)
(* Reading from a cursor (b, p).  A read yields [ok, pos, val, at]: pos is *)
(* the position after the last byte consumed, val the decoded value, at    *)
(* the field whose decode failed.                                          *)
(***************************************************************************)
Ok(p, v) == [ok |-> TRUE, pos |-> p, val |-> v, at |-> "none"]
Err(p, f) == [ok |-> FALSE, pos |-> p, val |-> <<>>, at |-> f]

\* the ? operator: an error returns at once, a value goes on to the rest
Bind(r, rest(_)) == IF r.ok THEN rest(r) ELSE r

Min(a, b) == IF a <= b THEN a ELSE b
Remaining(b, p) == IF p >= Len(b) THEN 0 ELSE Len(b) - p

\* io::Read::read on a cursor into a zeroed [u8; n]: copies what is left, up
\* to n bytes, and never fails; the rest of the array keeps its zeros
ReadSome(b, p, n) ==
  LET k == Min(n, Remaining(b, p))
  IN Ok(p + k, [i \in 1 .. n |-> IF i <= k THEN b[p + i] ELSE 0])

\* read_exact replaced by read: a short input is zero-filled
ReadExact_lenient(b, p, n, f) == ReadSome(b, p, n)

\* read_exact that wants a byte more than it reads
ReadExact_strict(b, p, n, f) ==
  IF Remaining(b, p) > n
  THEN Ok(p + n, [i \in 1 .. n |-> b[p + i]])
  ELSE Err(p, f)

\* io::Read::read_exact on a cursor: all n bytes or UnexpectedEof
ReadExact(b, p, n, f) ==
  IF Remaining(b, p) >= n
  THEN Ok(p + n, [i \in 1 .. n |-> b[p + i]])
  ELSE Err(p, f)

\* big-endian value of a byte string
RECURSIVE BEValue(_)
BEValue(s) ==
  IF Len(s) = 0 THEN 0
  ELSE U8 * BEValue(SubSeq(s, 1, Len(s) - 1)) + s[Len(s)]

RECURSIVE BEBytes(_, _)
\* the low n bytes of an integer, big-endian (two's complement for a negative
\* one: \div rounds down and % is never negative)
BEBytes(u, n) ==
  IF n = 0 THEN <<>>
  ELSE Append(BEBytes(u \div U8, n - 1), u % U8)

read_u16(b, p, f) ==
  Bind(ReadExact(b, p, 2, f), LAMBDA r : Ok(r.pos, BEValue(r.val)))

read_i16(b, p, f) ==
  Bind(ReadExact(b, p, 2, f), LAMBDA r : Ok(r.pos, AsI16(BEValue(r.val))))

read_i32(b, p, f) ==
  Bind(ReadExact(b, p, 4, f),
       LAMBDA r : Ok(r.pos, AsI8(r.val[1]) * U24 + BEValue(SubSeq(r.val, 2, 4))))

\* read_i16_into: one read_exact of 2 * n bytes, then n big-endian i16
read_i16_into(b, p, n, f) ==
  Bind(ReadExact(b, p, 2 * n, f),
       LAMBDA r : Ok(r.pos, [i \in 1 .. n |->
                               AsI16(BEValue(SubSeq(r.val, 2 * i - 1, 2 * i)))]))

write_u16(w, v) == w \o BEBytes(v, 2)
\* write_i16 in little-endian order
write_i16_le(w, v) == w \o <<I16AsU16(v) % U8, I16AsU16(v) \div U8>>

write_i16(w, v) == w \o BEBytes(I16AsU16(v), 2)
write_i32(w, v) == w \o BEBytes(v, 4)
\* io::Write::write of a slice to a Vec-backed cursor: appends all of it
write_bytes(w, s) == w \o s

(***************************************************************************)
(* Point and Rect.                                                         *)
(***************************************************************************)
\* Point::read taking h before v
Point_read_hv(b, p, f) ==
  Bind(read_i16(b, p, f), LAMBDA h :
  Bind(read_i16(b, h.pos, f), LAMBDA v :
  Ok(v.pos, [v |-> v.val, h |-> h.val])))

Point_read(b, p, f) ==
  Bind(read_i16(b, p, f), LAMBDA v :
  Bind(read_i16(b, v.pos, f), LAMBDA h :
  Ok(h.pos, [v |-> v.val, h |-> h.val])))

Point_write(w, pt) == write_i16(write_i16(w, pt.v), pt.h)

\* Rect::read taking left, top, right, bottom
Rect_read_xy(b, p, f) ==
  Bind(read_i16(b, p, f), LAMBDA left :
  Bind(read_i16(b, left.pos, f), LAMBDA top :
  Bind(read_i16(b, top.pos, f), LAMBDA right :
  Bind(read_i16(b, right.pos, f), LAMBDA bottom :
  Ok(bottom.pos, [top |-> top.val, left |-> left.val,
                  bottom |-> bottom.val, right |-> right.val])))))

Rect_read(b, p, f) ==
  Bind(read_i16(b, p, f), LAMBDA top :
  Bind(read_i16(b, top.pos, f), LAMBDA left :
  Bind(read_i16(b, left.pos, f), LAMBDA bottom :
  Bind(read_i16(b, bottom.pos, f), LAMBDA right :
  Ok(right.pos, [top |-> top.val, left |-> left.val,
                 bottom |-> bottom.val, right |-> right.val])))))

Rect_write(w, r) ==
  write_i16(write_i16(write_i16(write_i16(w, r.top), r.left), r.bottom), r.right)

(***************************************************************************)
(* FileInfo and ExtendedFileInfo.                                          *)
(***************************************************************************)
FileInfo_read(b, p) ==
  Bind(ReadSome(b, p, 4), LAMBDA fileType :
  Bind(ReadSome(b, fileType.pos, 4), LAMBDA fileCreator :
  Bind(read_u16(b, fileCreator.pos, "finderFlags"), LAMBDA finderFlags :
  Bind(Point_read(b, finderFlags.pos, "location"), LAMBDA location :
  Bind(read_u16(b, location.pos, "reservedField"), LAMBDA reservedField :
  Ok(reservedField.pos,
     [fileType |-> fileType.val,
      fileCreator |-> fileCreator.val,
      finderFlags |-> finderFlags.val,
      location |-> location.val,
      reservedField |-> reservedField.val]))))))

\* FileInfo::write that leaves the reserved field out
FileInfo_write_no_reserved(w, fi) ==
  Point_write(
    write_u16(write_bytes(write_bytes(w, fi.fileType), fi.fileCreator),
              fi.finderFlags),
    fi.location)

FileInfo_write(w, fi) ==
  write_u16(
    Point_write(
      write_u16(write_bytes(write_bytes(w, fi.fileType), fi.fileCreator),
                fi.finderFlags),
      fi.location),
    fi.reservedField)

ExtendedFileInfo_read(b, p) ==
  Bind(read_i16_into(b, p, 4, "reserved1"), LAMBDA reserved1 :
  Bind(read_u16(b, reserved1.pos, "extendedFinderFlags"), LAMBDA extendedFinderFlags :
  Bind(read_i16(b, extendedFinderFlags.pos, "reserved2"), LAMBDA reserved2 :
  Bind(read_i32(b, reserved2.pos, "putAwayFolderID"), LAMBDA putAwayFolderID :
  Ok(putAwayFolderID.pos,
     [reserved1 |-> reserved1.val,
      extendedFinderFlags |-> extendedFinderFlags.val,
      reserved2 |-> reserved2.val,
      putAwayFolderID |-> putAwayFolderID.val])))))

RECURSIVE write_i16_each(_, _)
\* for r in &self.reserved1 { w.write_i16::<BigEndian>(*r)?; }
write_i16_each(w, a) ==
  IF Len(a) = 0 THEN w
  ELSE write_i16_each(write_i16(w, Head(a)), Tail(a))

ExtendedFileInfo_write(w, xi) ==
  write_i32(
    write_i16(
      write_u16(write_i16_each(w, xi.reserved1), xi.extendedFinderFlags),
      xi.reserved2),
    xi.putAwayFolderID)

FinderInfoFile_read(b, p) ==
  Bind(FileInfo_read(b, p), LAMBDA file_info :
  Bind(ExtendedFileInfo_read(b, file_info.pos), LAMBDA extended_file_info :
  Ok(extended_file_info.pos,
     [file_info |-> file_info.val,
      extended_file_info |-> extended_file_info.val])))

FinderInfoFile_write(w, fi) ==
  ExtendedFileInfo_write(FileInfo_write(w, fi.file_info), fi.extended_file_info)

(***************************************************************************)
(* FolderInfo and ExtendedFolderInfo.                                      *)
(***************************************************************************)
FolderInfo_read(b, p) ==
  Bind(Rect_read(b, p, "windowBounds"), LAMBDA windowBounds :
  Bind(read_u16(b, windowBounds.pos, "finderFlags"), LAMBDA finderFlags :
  Bind(Point_read(b, finderFlags.pos, "location"), LAMBDA location :
  Bind(read_u16(b, location.pos, "reservedField"), LAMBDA reservedField :
  Ok(reservedField.pos,
     [windowBounds |-> windowBounds.val,
      finderFlags |-> finderFlags.val,
      location |-> location.val,
      reservedField |-> reservedField.val])))))

FolderInfo_write(w, fi) ==
  write_u16(
    Point_write(write_u16(Rect_write(w, fi.windowBounds), fi.finderFlags),
                fi.location),
    fi.reservedField)

ExtendedFolderInfo_read(b, p) ==
  Bind(Point_read(b, p, "scrollPosition"), LAMBDA scrollPosition :
  Bind(read_i32(b, scrollPosition.pos, "reserved1"), LAMBDA reserved1 :
  Bind(read_u16(b, reserved1.pos, "extendedFinderFlags"), LAMBDA extendedFinderFlags :
  Bind(read_i16(b, extendedFinderFlags.pos, "reserved2"), LAMBDA reserved2 :
  Bind(read_i32(b, reserved2.pos, "putAwayFolderID"), LAMBDA putAwayFolderID :
  Ok(putAwayFolderID.pos,
     [scrollPosition |-> scrollPosition.val,
      reserved1 |-> reserved1.val,
      extendedFinderFlags |-> extendedFinderFlags.val,
      reserved2 |-> reserved2.val,
      putAwayFolderID |-> putAwayFolderID.val]))))))

\* ExtendedFolderInfo::write that leaves reserved1 out
ExtendedFolderInfo_write_no_reserved1(w, xi) ==
  write_i32(
    write_i16(
      write_u16(Point_write(w, xi.scrollPosition), xi.extendedFinderFlags),
      xi.reserved2),
    xi.putAwayFolderID)

ExtendedFolderInfo_write(w, xi) ==
  write_i32(
    write_i16(
      write_u16(write_i32(Point_write(w, xi.scrollPosition), xi.reserved1),
                xi.extendedFinderFlags),
      xi.reserved2),
    xi.putAwayFolderID)

FinderInfoFolder_read(b, p) ==
  Bind(FolderInfo_read(b, p), LAMBDA folder_info :
  Bind(ExtendedFolderInfo_read(b, folder_info.pos), LAMBDA extended_folder_info :
  Ok(extended_folder_info.pos,
     [folder_info |-> folder_info.val,
      extended_folder_info |-> extended_folder_info.val])))

FinderInfoFolder_write(w, fi) ==
  ExtendedFolderInfo_write(FolderInfo_write(w, fi.folder_info),
                           fi.extended_folder_info)

(***************************************************************************)
(* #[derive(Default)]: every field zero.                                   *)
(***************************************************************************)
Point_default == [v |-> 0, h |-> 0]
Rect_default == [top |-> 0, left |-> 0, bottom |-> 0, right |-> 0]

FileInfo_default ==
  [fileType |-> Zeros(4), fileCreator |-> Zeros(4), finderFlags |-> 0,
   location |-> Point_default, reservedField |-> 0]

ExtendedFileInfo_default ==
  [reserved1 |-> Zeros(4), extendedFinderFlags |-> 0, reserved2 |-> 0,
   putAwayFolderID |-> 0]

FinderInfoFile_default ==
  [file_info |-> FileInfo_default, extended_file_info |-> ExtendedFileInfo_default]

FolderInfo_default ==
  [windowBounds |-> Rect_default, finderFlags |-> 0, location |-> Point_default,
   reservedField |-> 0]

ExtendedFolderInfo_default ==
  [scrollPosition |-> Point_default, reserved1 |-> 0, extendedFinderFlags |-> 0,
   reserved2 |-> 0, putAwayFolderID |-> 0]

FinderInfoFolder_default ==
  [folder_info |-> FolderInfo_default,
   extended_folder_info |-> ExtendedFolderInfo_default]

(***************************************************************************)
(* impl fmt::Debug.  A rendering is the struct's name and its fields in    *)
(* the order debug_struct prints them, each <<name, rendered value>>.      *)
(***************************************************************************)
debug_struct(name, fields) == [name |-> name, fields |-> fields]

\* if c { flags.push(s) }
Push(flags, c, s) == IF c THEN Append(flags, s) ELSE flags

\* a rendering that tests the name lock before the stationery bit
FinderFlags_fmt_swapped(f) ==
  debug_struct("FinderFlags",
    << <<"raw", f>>,
       <<"flags",
         Push(Push(Push(Push(Push(Push(Push(Push(Push(Push(<<>>,
           color(f) # "None", color(f)),
           is_shared(f), "kIsShared"),
           has_no_inits(f), "kHasNoINITs"),
           has_been_inited(f), "kHasBeenInited"),
           has_custom_icon(f), "kHasCustomIcon"),
           name_locked(f), "kNameLocked"),
           is_stationery(f), "kIsStationery"),
           has_bundle(f), "kHasBundle"),
           is_invisible(f), "kIsInvisible"),
           is_alias(f), "kIsAlias")>> >>)

FinderFlags_fmt(f) ==
  debug_struct("FinderFlags",
    << <<"raw", f>>,
       <<"flags",
         Push(Push(Push(Push(Push(Push(Push(Push(Push(Push(<<>>,
           color(f) # "None", color(f)),
           is_shared(f), "kIsShared"),
           has_no_inits(f), "kHasNoINITs"),
           has_been_inited(f), "kHasBeenInited"),
           has_custom_icon(f), "kHasCustomIcon"),
           is_stationery(f), "kIsStationery"),
           name_locked(f), "kNameLocked"),
           has_bundle(f), "kHasBundle"),
           is_invisible(f), "kIsInvisible"),
           is_alias(f), "kIsAlias")>> >>)

ExtendedFinderFlags_fmt(f) ==
  debug_struct("ExtendedFinderFlags",
    << <<"raw", f>>,
       <<"flags",
         Push(Push(Push(<<>>,
           are_invalid(f), "kExtendedFlagsAreInvalid"),
           has_custom_badge(f), "kExtendedFlagHasCustomBadge"),
           has_routing_info(f), "kExtendedFlagHasCustomBadge")>> >>)

\* #[derive(Debug)] of Point
Point_fmt(pt) == debug_struct("Point", << <<"v", pt.v>>, <<"h", pt.h>> >>)

\* a rendering that always prints the reserved fields
ExtendedFileInfo_fmt_always(xi) ==
  debug_struct("ExtendedFileInfo",
    << <<"reserved1", xi.reserved1>>,
       <<"extendedFinderFlags", ExtendedFinderFlags_fmt(xi.extendedFinderFlags)>>,
       <<"reserved2", xi.reserved2>>,
       <<"putAwayFolderID", xi.putAwayFolderID>> >>)

ExtendedFileInfo_fmt(xi) ==
  IF xi.reserved1 = Zeros(4) /\ xi.reserved2 = 0
  THEN debug_struct("ExtendedFileInfo",
         << <<"extendedFinderFlags", ExtendedFinderFlags_fmt(xi.extendedFinderFlags)>>,
            <<"putAwayFolderID", xi.putAwayFolderID>> >>)
  ELSE debug_struct("ExtendedFileInfo",
         << <<"reserved1", xi.reserved1>>,
            <<"extendedFinderFlags", ExtendedFinderFlags_fmt(xi.extendedFinderFlags)>>,
            <<"reserved2", xi.reserved2>>,
            <<"putAwayFolderID", xi.putAwayFolderID>> >>)

ExtendedFolderInfo_fmt(xi) ==
  IF xi.reserved1 = 0 /\ xi.reserved2 = 0
  THEN debug_struct("ExtendedFolderInfo",
         << <<"scrollPosition", Point_fmt(xi.scrollPosition)>>,
            <<"extendedFinderFlags", ExtendedFinderFlags_fmt(xi.extendedFinderFlags)>>,
            <<"putAwayFolderID", xi.putAwayFolderID>> >>)
  ELSE debug_struct("ExtendedFolderInfo",
         << <<"scrollPosition", Point_fmt(xi.scrollPosition)>>,
            <<"reserved1", xi.reserved1>>,
            <<"extendedFinderFlags", ExtendedFinderFlags_fmt(xi.extendedFinderFlags)>>,
            <<"reserved2", xi.reserved2>>,
            <<"putAwayFolderID", xi.putAwayFolderID>> >>)

(***************************************************************************)
(* The values a caller holds.  A value with Finder flags is edited through *)
(* its finderFlags field; the two aggregates reach it through their info   *)
(* struct.                                                                 *)
(***************************************************************************)
Aggregates == {"FinderInfoFile", "FinderInfoFolder"}
Infos == {"FileInfo", "ExtendedFileInfo", "FolderInfo", "ExtendedFolderInfo"}
FlagKinds == {"FinderFlags", "FileInfo", "FolderInfo"} \cup Aggregates

\* std::mem::size_of of each record type
RecLen == 32

FlagsOf(k, r) ==
  CASE k = "FinderFlags" -> r
    [] k = "FileInfo" -> r.finderFlags
    [] k = "FolderInfo" -> r.finderFlags
    [] k = "FinderInfoFile" -> r.file_info.finderFlags
    [] k = "FinderInfoFolder" -> r.folder_info.finderFlags

WithFlags(k, r, f) ==
  CASE k = "FinderFlags" -> f
    [] k = "FileInfo" -> [r EXCEPT !.finderFlags = f]
    [] k = "FolderInfo" -> [r EXCEPT !.finderFlags = f]
    [] k = "FinderInfoFile" -> [r EXCEPT !.file_info.finderFlags = f]
    [] k = "FinderInfoFolder" -> [r EXCEPT !.folder_info.finderFlags = f]

ReadOf(k, b, p) ==
  CASE k = "FinderInfoFile" -> FinderInfoFile_read(b, p)
    [] k = "FinderInfoFolder" -> FinderInfoFolder_read(b, p)
    [] k = "FileInfo" -> FileInfo_read(b, p)
    [] k = "ExtendedFileInfo" -> ExtendedFileInfo_read(b, p)
    [] k = "FolderInfo" -> FolderInfo_read(b, p)
    [] k = "ExtendedFolderInfo" -> ExtendedFolderInfo_read(b, p)

WriteOf(k, w, r) ==
  CASE k = "FinderInfoFile" -> FinderInfoFile_write(w, r)
    [] k = "FinderInfoFolder" -> FinderInfoFolder_write(w, r)
    [] k = "FileInfo" -> FileInfo_write(w, r)
    [] k = "ExtendedFileInfo" -> ExtendedFileInfo_write(w, r)
    [] k = "FolderInfo" -> FolderInfo_write(w, r)
    [] k = "ExtendedFolderInfo" -> ExtendedFolderInfo_write(w, r)

DefaultOf(k) ==
  CASE k = "FinderInfoFile" -> FinderInfoFile_default
    [] k = "FinderInfoFolder" -> FinderInfoFolder_default
    [] k = "FileInfo" -> FileInfo_default
    [] k = "ExtendedFileInfo" -> ExtendedFileInfo_default
    [] k = "FolderInfo" -> FolderInfo_default
    [] k = "ExtendedFolderInfo" -> ExtendedFolderInfo_default

(***************************************************************************)
(* Operations.                                                             *)
(***************************************************************************)
NoRead == [op |-> "none", ok |-> FALSE, at |-> "none", from |-> 0]

\* what the caller has after T::read returned r.  A failed read_exact leaves
\* the cursor where the failing field began or at the end of the input,
\* depending on the std version; the caller holds no value after an error.
Returned(k, r) ==
  /\ res' = [op |-> k, ok |-> r.ok, at |-> r.at, from |-> pos]
  /\ IF r.ok
     THEN /\ pos' = r.pos
          /\ kind' = k
          /\ rec' = r.val
     ELSE /\ pos' \in {r.pos, Len(input)}
          /\ kind' = "None"
          /\ rec' = <<>>
  /\ lastColor' = <<>>
  /\ lastIcon' = <<>>
  /\ UNCHANGED <<input, out, byte, label>>
  /\ UNCHANGED aux

\* T::read(&mut cursor)
Read(k) == Returned(k, ReadOf(k, input, pos))

ReadFinderInfoFile == Read("FinderInfoFile")
ReadFinderInfoFolder == Read("FinderInfoFolder")
ReadFileInfo == Read("FileInfo")
ReadExtendedFileInfo == Read("ExtendedFileInfo")
ReadFolderInfo == Read("FolderInfo")
ReadExtendedFolderInfo == Read("ExtendedFolderInfo")

\* value.write(&mut sink), explored on sinks that hold a prefix only
Write(k) ==
  /\ kind = k
  /\ Len(out) <= MaxPrefix
  /\ out' = WriteOf(k, out, rec)
  /\ UNCHANGED <<input, pos, res, kind, rec, lastColor, lastIcon, byte, label>>
  /\ UNCHANGED aux

WriteFinderInfoFile == Write("FinderInfoFile")
WriteFinderInfoFolder == Write("FinderInfoFolder")
WriteFileInfo == Write("FileInfo")
WriteExtendedFileInfo == Write("ExtendedFileInfo")
WriteFolderInfo == Write("FolderInfo")
WriteExtendedFolderInfo == Write("ExtendedFolderInfo")

\* value.finderFlags.set_color(c)
SetColor(c) ==
  /\ kind \in FlagKinds
  /\ lastColor' = <<c>>
  /\ rec' = WithFlags(kind, rec, set_color(FlagsOf(kind, rec), c))
  /\ UNCHANGED <<input, pos, res, kind, out, lastIcon, byte, label>>
  /\ UNCHANGED aux

\* value.finderFlags.set_has_custom_icon(v)
SetHasCustomIcon(v) ==
  /\ kind \in FlagKinds
  /\ lastIcon' = <<v>>
  /\ rec' = WithFlags(kind, rec, set_has_custom_icon(FlagsOf(kind, rec), v))
  /\ UNCHANGED <<input, pos, res, kind, out, lastColor, byte, label>>
  /\ UNCHANGED aux

SetColorStep == \E c \in OptLabelColor : SetColor(c)
SetHasCustomIconStep == \E v \in BOOLEAN : SetHasCustomIcon(v)

\* LabelColor::from_u8(b)
LabelFromU8 ==
  /\ \E b \in Bytes : byte' = b /\ label' = from_u8(b)
  /\ UNCHANGED <<input, pos, res, kind, rec, out, lastColor, lastIcon>>
  /\ UNCHANGED aux

\* LabelColor::to_u8(c)
LabelToU8 ==
  /\ \E c \in OptLabelColor : label' = c /\ byte' = to_u8(c)
  /\ UNCHANGED <<input, pos, res, kind, rec, out, lastColor, lastIcon>>
  /\ UNCHANGED aux

\* the types whose fmt::Debug is written by hand and modelled here
DebugKinds ==
  {"FinderFlags", "ExtendedFinderFlags", "ExtendedFileInfo", "ExtendedFolderInfo"}

FmtOf(k, r) ==
  CASE k = "FinderFlags" -> FinderFlags_fmt(r)
    [] k = "ExtendedFinderFlags" -> ExtendedFinderFlags_fmt(r)
    [] k = "ExtendedFileInfo" -> ExtendedFileInfo_fmt(r)
    [] k = "ExtendedFolderInfo" -> ExtendedFolderInfo_fmt(r)

\* format!("{:?}", value)
Fmt ==
  /\ kind \in DebugKinds
  /\ shown' = FmtOf(kind, rec)
  /\ UNCHANGED <<input, pos, res, kind, rec, out, lastColor, lastIcon, byte, label>>
  /\ UNCHANGED <<attr, isDir, cli>>

(***************************************************************************)
(* The finderinfo tool, write-filetype command.  a is the path's           *)
(* com.apple.FinderInfo attribute, d whether the path is a directory; sys  *)
(* is whether the xattr system call succeeds (it never does in a build     *)
(* without the xattr feature).                                             *)
(***************************************************************************)
\* getxattr into a [0u8; 32]: -1 without an attribute or with a longer one,
\* an error for fewer than 32 bytes, else the record of the path's kind
read_finderinfo_from_path(a, d, sys) ==
  IF ~sys \/ Len(a) # RecLen
  THEN Err(0, "getxattr")
  ELSE IF d
       THEN Bind(FinderInfoFolder_read(a, 0),
                 LAMBDA r : Ok(r.pos, [tag |-> "Directory", fi |-> r.val]))
       ELSE Bind(FinderInfoFile_read(a, 0),
                 LAMBDA r : Ok(r.pos, [tag |-> "File", fi |-> r.val]))

\* main that forgets the record it read and starts from the default
unwrap_or_else_fresh(r, d) ==
  IF d /\ ~r.ok
  THEN [panic |-> TRUE, val |-> <<>>]
  ELSE [panic |-> FALSE, val |-> [tag |-> IF d THEN "Directory" ELSE "File",
                                  fi |-> FinderInfoFile_default]]

\* .unwrap_or_else(|_| { if is_dir { panic!() } FinderInfo::File(default) })
unwrap_or_else(r, d) ==
  IF r.ok
  THEN [panic |-> FALSE, val |-> r.val]
  ELSE IF d
       THEN [panic |-> TRUE, val |-> <<>>]
       ELSE [panic |-> FALSE, val |-> [tag |-> "File", fi |-> FinderInfoFile_default]]

Panicked ==
  /\ cli' = [exit |-> "panic", wrote |-> <<>>]
  /\ attr' = attr

\* match finder_info { File(fi) => set the type, setxattr; Directory => panic }
SetFiletype(value, sys, loaded) ==
  IF loaded.panic \/ loaded.val.tag = "Directory" \/ Len(value) # 4 \/ ~sys
  THEN Panicked
  ELSE /\ attr' = FinderInfoFile_write(<<>>,
                    [loaded.val.fi EXCEPT !.file_info.fileType = value])
       /\ cli' = [exit |-> "ok", wrote |-> <<attr'>>]

\* finderinfo write-filetype <path> <value>
WriteFiletype(value, getOk, setOk) ==
  /\ SetFiletype(value, setOk,
                 unwrap_or_else(read_finderinfo_from_path(attr, isDir, getOk), isDir))
  /\ UNCHANGED <<input, pos, res, kind, rec, out, lastColor, lastIcon, byte, label>>
  /\ UNCHANGED <<shown, isDir>>

\* <value> is a String: "slnk", "TEXT", a 4-byte string with a 2-byte
\* character, and strings of other lengths
CliValues ==
  {<<115, 108, 110, 107>>, <<84, 69, 88, 84>>, <<195, 169, 97, 98>>,
   <<>>, <<97, 98, 99>>, <<97, 98, 99, 100, 101>>}

WriteFiletypeStep ==
  \E value \in CliValues, getOk \in BOOLEAN, setOk \in BOOLEAN :
    WriteFiletype(value, getOk, setOk)

(***************************************************************************)
(* Inputs.                                                                 *)
(***************************************************************************)
Poke(s, k, v) == [s EXCEPT ![k] = v]
Take(s, n) == SubSeq(s, 1, n)

MaxLen == RecLen + MaxExtra

\* every byte distinct: a misplaced field shows
Ramp == [i \in 1 .. MaxLen |-> i]
\* every byte distinct with its top bit set: a lost sign shows
RampHigh == [i \in 1 .. MaxLen |-> U8 - i]
Ones == [i \in 1 .. MaxLen |-> U8 - 1]
Bases == {Zeros(MaxLen), Ones, Ramp, RampHigh}

\* the fixtures of the crate's tests
FINDERINFO_XATTR_VALUE_ON == Poke(Zeros(RecLen), 9, 4)
FINDERINFO_XATTR_RED_BLUE_FOO_ICON == Poke(Poke(Zeros(RecLen), 9, 4), 10, 8)
FINDERINFO_XATTR_FOO_BLUE_RED == Poke(Zeros(RecLen), 10, 12)
FINDERINFO_XATTR_FOO_BLUE_RED_ICON == Poke(Poke(Zeros(RecLen), 9, 4), 10, 12)
Fixtures ==
  {Zeros(RecLen), FINDERINFO_XATTR_VALUE_ON, FINDERINFO_XATTR_RED_BLUE_FOO_ICON,
   FINDERINFO_XATTR_FOO_BLUE_RED, FINDERINFO_XATTR_FOO_BLUE_RED_ICON}

PokeBytes == {0, 12, 128, 255}
WholeLens == RecLen .. MaxLen
ShortLens == 0 .. (RecLen - 1)

\* whole records: a base with one byte replaced
Poked ==
  {Take(Poke(b, k, v), n) : b \in Bases, k \in 1 .. MaxLen, v \in PokeBytes,
                            n \in WholeLens}
\* truncated records
Short == {Take(b, n) : b \in {Ones, Ramp}, n \in ShortLens}

CodecInputs == Fixtures \cup Poked \cup Short
EditInputs ==
  Fixtures \cup {Take(b, n) : b \in {Ramp, RampHigh}, n \in WholeLens}
    \cup {Take(Ramp, n) : n \in {0, 7, 15, 16, 31}}

Prefixes == {[i \in 1 .. n |-> 170] : n \in 0 .. MaxPrefix}

\* extended info structs: 16 bytes with up to two bytes replaced
DebugLen == 16
DebugInputs ==
  {Take(Poke(Poke(b, j, v), k, w), DebugLen) :
     b \in {Zeros(MaxLen), Ramp}, j \in 1 .. DebugLen, k \in 1 .. DebugLen,
     v \in {0, 255}, w \in {0, 255}}

(***************************************************************************)
(* Specifications.                                                         *)
(***************************************************************************)
\* the tool has not run
NoRun == [exit |-> "none", wrote |-> <<>>]

NoValue ==
  /\ pos = 0
  /\ res = NoRead
  /\ lastColor = <<>>
  /\ lastIcon = <<>>
  /\ byte = 0
  /\ label = "None"
  /\ shown = <<>>
  /\ attr = <<>>
  /\ isDir = FALSE
  /\ cli = NoRun

\* a cursor over an input and a sink; or a default-constructed value
InitOver(inputs) ==
  /\ NoValue
  /\ out \in Prefixes
  /\ \/ /\ input \in inputs
        /\ kind = "None"
        /\ rec = <<>>
     \/ /\ input = <<>>
        /\ kind \in Aggregates \cup Infos
        /\ rec = DefaultOf(kind)

Init == InitOver(EditInputs)

Reads ==
  \/ ReadFinderInfoFile
  \/ ReadFinderInfoFolder
  \/ ReadFileInfo
  \/ ReadExtendedFileInfo
  \/ ReadFolderInfo
  \/ ReadExtendedFolderInfo

Writes ==
  \/ WriteFinderInfoFile
  \/ WriteFinderInfoFolder
  \/ WriteFileInfo
  \/ WriteExtendedFileInfo
  \/ WriteFolderInfo
  \/ WriteExtendedFolderInfo

Next ==
  \/ Reads
  \/ Writes
  \/ SetColorStep
  \/ SetHasCustomIconStep

Spec == Init /\ [][Next]_vars

\* the codec alone, over many inputs
InitCodec == InitOver(CodecInputs)
NextCodec == Reads \/ Writes
SpecCodec == InitCodec /\ [][NextCodec]_vars

\* FinderFlags::from(x) for every u16 x, then the setters
InitFlags ==
  /\ NoValue
  /\ input = <<>>
  /\ out = <<>>
  /\ kind = "FinderFlags"
  /\ rec \in 0 .. (U16 - 1)
NextFlags == SetColorStep \/ SetHasCustomIconStep
SpecFlags == InitFlags /\ [][NextFlags]_vars

\* the LabelColor conversions
InitColor ==
  /\ NoValue
  /\ input = <<>>
  /\ out = <<>>
  /\ kind = "None"
  /\ rec = <<>>
NextColor == LabelFromU8 \/ LabelToU8
SpecColor == InitColor /\ [][NextColor]_vars

\* the tool over a path with no attribute, a whole record, a short or a long one
CliAttrs ==
  {<<>>} \cup EditInputs \cup {Take(Poke(Ramp, k, 255), RecLen) : k \in 1 .. RecLen}
InitCli ==
  /\ pos = 0
  /\ res = NoRead
  /\ lastColor = <<>>
  /\ lastIcon = <<>>
  /\ byte = 0
  /\ label = "None"
  /\ shown = <<>>
  /\ input = <<>>
  /\ out = <<>>
  /\ kind = "None"
  /\ rec = <<>>
  /\ cli = NoRun
  /\ attr \in CliAttrs
  /\ isDir \in BOOLEAN
NextCli == WriteFiletypeStep
SpecCli == InitCli /\ [][NextCli]_vars

\* rendering: FinderFlags::from(x) and ExtendedFinderFlags::from(x) for every
\* u16 x, and the extended info structs read from 16 bytes
InitDebug ==
  /\ NoValue
  /\ out = <<>>
  /\ \/ /\ input = <<>>
        /\ kind \in {"FinderFlags", "ExtendedFinderFlags"}
        /\ rec \in 0 .. (U16 - 1)
     \/ /\ input \in DebugInputs
        /\ kind = "None"
        /\ rec = <<>>
NextDebug ==
  \/ ReadExtendedFileInfo
  \/ ReadExtendedFolderInfo
  \/ WriteExtendedFileInfo
  \/ WriteExtendedFolderInfo
  \/ Fmt
SpecDebug == InitDebug /\ [][NextDebug]_vars

(***************************************************************************)
(* Properties.                                                             *)
(***************************************************************************)
\* the value held is exactly what the last read decoded
Untouched == lastColor = <<>> /\ lastIcon = <<>>
\* the RecLen bytes the last read started at
Decoded == SubSeq(input, res.from + 1, res.from + RecLen)

\* C1: round-trip law.  Writing a FinderInfoFile or a FinderInfoFolder that was
\* read from 32 bytes b, and not edited since, appends exactly b to the sink:
\* every field, the reserved ones included, comes back byte for byte.
C1_RoundTrip ==
  [][\A k \in Aggregates :
       (Write(k) /\ res.ok /\ res.op = k /\ Untouched)
         => out' = out \o Decoded]_vars

\* a file record with nonzero reserved fields has been read and written back
C1_Witness ==
  /\ kind = "FinderInfoFile"
  /\ res.ok
  /\ Len(out) >= RecLen
  /\ rec.file_info.reservedField # 0
  /\ rec.extended_file_info.reserved1[1] # 0
  /\ rec.extended_file_info.reserved2 < 0

\* C2: truncation.  An aggregate read over an input of fewer than 32 bytes
\* returns an error and the caller gets no record, complete or partial.
C2_Truncation ==
  (res.op \in Aggregates /\ res.from = 0 /\ Len(input) < RecLen)
    => (~res.ok /\ res.at # "none" /\ kind = "None" /\ rec = <<>>)

\* a read of a file record over 31 bytes has failed
C2_Witness ==
  /\ res.op = "FinderInfoFile"
  /\ res.from = 0
  /\ Len(input) = RecLen - 1
  /\ ~res.ok

\* C3: totality on full-size input.  An aggregate read that has 32 bytes
\* before it succeeds and returns a record of its type, whatever the bits.
C3_Totality ==
  (res.op \in Aggregates /\ res.from + RecLen <= Len(input))
    => (res.ok /\ kind = res.op)

\* a folder record has been read from 32 bytes with every bit set
C3_Witness ==
  /\ res.op = "FinderInfoFolder"
  /\ res.ok
  /\ kind = "FinderInfoFolder"
  /\ Decoded = [i \in 1 .. RecLen |-> 255]

\* C4: flag independence.  set_color changes no bit outside mask 0x000e and
\* set_has_custom_icon changes no bit outside 0x0400, for every starting value.
C4_FlagIndependence ==
  [][LET old == FlagsOf(kind, rec)
         new == FlagsOf(kind, rec')
     IN /\ SetColorStep => (new \div 16 = old \div 16 /\ new % 2 = old % 2)
        /\ SetHasCustomIconStep =>
             (new \div 2048 = old \div 2048 /\ new % 1024 = old % 1024)]_vars

\* a color has been set on flags whose custom-icon bit and every other bit
\* outside the color field are set, and the icon bit has been cleared on flags
\* carrying a color
C4_Witness ==
  /\ kind = "FinderFlags"
  /\ lastColor = <<"Purple">>
  /\ lastIcon = <<FALSE>>
  /\ rec = 65535 - 1024 - 14 + 6

\* C5: label-color mapping.  from_u8 maps 2, 4, 6, 8, 10, 12, 14 to Gray,
\* Green, Purple, Blue, Yellow, Red, Orange and every other byte to None;
\* to_u8 maps None to 0 and each color to the code from_u8 maps back to it.
C5_ColorMapping ==
  [][LET Names == <<"Gray", "Green", "Purple", "Blue", "Yellow", "Red", "Orange">>
         Claimed(b) == IF b \in {2, 4, 6, 8, 10, 12, 14} THEN Names[b \div 2] ELSE "None"
     IN /\ LabelFromU8 => label' = Claimed(byte')
        /\ LabelToU8 => /\ label' = "None" => byte' = 0
                        /\ label' # "None" => /\ byte' \in {2, 4, 6, 8, 10, 12, 14}
                                              /\ Names[byte' \div 2] = label'
                        /\ from_u8(byte') = label']_vars

\* an odd byte next to a color code has been converted
C5_Witness == byte = 13 /\ label = "None"

\* C6: file record wire layout.  FinderInfoFile::read over 32 bytes b yields
\* fileType = b[0..4], fileCreator = b[4..8], finderFlags = u16 b[8..10],
\* location.v = i16 b[10..12], location.h = i16 b[12..14], reservedField = u16
\* b[14..16], reserved1[i] = i16 b[16+2i..18+2i], extendedFinderFlags = u16
\* b[24..26], reserved2 = i16 b[26..28], putAwayFolderID = i32 b[28..32], all
\* big-endian; has_custom_icon() is bit 0x04 of byte 8 and color() comes from
\* bits 0x0e of byte 9.
C6_FileLayout ==
  (kind = "FinderInfoFile" /\ res.ok /\ res.op = kind /\ Untouched) =>
    LET b == Decoded
        u16(i) == b[i + 1] * 256 + b[i + 2]
        i16(i) == IF b[i + 1] >= 128 THEN u16(i) - 65536 ELSE u16(i)
        i32(i) == (IF b[i + 1] >= 128 THEN b[i + 1] - 256 ELSE b[i + 1]) * 16777216
                    + b[i + 2] * 65536 + b[i + 3] * 256 + b[i + 4]
        fi == rec.file_info
        xi == rec.extended_file_info
    IN /\ fi.fileType = <<b[1], b[2], b[3], b[4]>>
       /\ fi.fileCreator = <<b[5], b[6], b[7], b[8]>>
       /\ fi.finderFlags = u16(8)
       /\ fi.location = [v |-> i16(10), h |-> i16(12)]
       /\ fi.reservedField = u16(14)
       /\ xi.reserved1 = <<i16(16), i16(18), i16(20), i16(22)>>
       /\ xi.extendedFinderFlags = u16(24)
       /\ xi.reserved2 = i16(26)
       /\ xi.putAwayFolderID = i32(28)
       /\ has_custom_icon(fi.finderFlags) = ((b[9] \div 4) % 2 = 1)
       /\ color(fi.finderFlags) = from_u8(2 * ((b[10] \div 2) % 8))

\* scenario D: bytes 8 = 0x04 and 9 = 0x0C decoded as a file record
C6_Witness ==
  /\ kind = "FinderInfoFile"
  /\ res.ok
  /\ Untouched
  /\ input = FINDERINFO_XATTR_FOO_BLUE_RED_ICON
  /\ has_custom_icon(rec.file_info.finderFlags)
  /\ color(rec.file_info.finderFlags) = "Red"

\* C7: folder record wire layout.  FinderInfoFolder::read over 32 bytes b
\* yields windowBounds (top, left, bottom, right) = the four i16 of b[0..8],
\* finderFlags = u16 b[8..10], location (v, h) = i16 b[10..12], b[12..14],
\* reservedField = u16 b[14..16], scrollPosition (v, h) = i16 b[16..18],
\* b[18..20], reserved1 = i32 b[20..24], extendedFinderFlags = u16 b[24..26],
\* reserved2 = i16 b[26..28], putAwayFolderID = i32 b[28..32], all big-endian;
\* has_custom_icon() is bit 0x04 of byte 8, color() comes from bits 0x0e of
\* byte 9.
C7_FolderLayout ==
  (kind = "FinderInfoFolder" /\ res.ok /\ res.op = kind /\ Untouched) =>
    LET b == Decoded
        u16(i) == b[i + 1] * 256 + b[i + 2]
        i16(i) == IF b[i + 1] >= 128 THEN u16(i) - 65536 ELSE u16(i)
        i32(i) == (IF b[i + 1] >= 128 THEN b[i + 1] - 256 ELSE b[i + 1]) * 16777216
                    + b[i + 2] * 65536 + b[i + 3] * 256 + b[i + 4]
        fi == rec.folder_info
        xi == rec.extended_folder_info
    IN /\ fi.windowBounds =
            [top |-> i16(0), left |-> i16(2), bottom |-> i16(4), right |-> i16(6)]
       /\ fi.finderFlags = u16(8)
       /\ fi.location = [v |-> i16(10), h |-> i16(12)]
       /\ fi.reservedField = u16(14)
       /\ xi.scrollPosition = [v |-> i16(16), h |-> i16(18)]
       /\ xi.reserved1 = i32(20)
       /\ xi.extendedFinderFlags = u16(24)
       /\ xi.reserved2 = i16(26)
       /\ xi.putAwayFolderID = i32(28)
       /\ has_custom_icon(fi.finderFlags) = ((b[9] \div 4) % 2 = 1)
       /\ color(fi.finderFlags) = from_u8(2 * ((b[10] \div 2) % 8))

\* scenario C: byte 9 = 0x0C decoded as a folder record
C7_Witness ==
  /\ kind = "FinderInfoFolder"
  /\ res.ok
  /\ Untouched
  /\ input = FINDERINFO_XATTR_FOO_BLUE_RED
  /\ ~has_custom_icon(rec.folder_info.finderFlags)
  /\ color(rec.folder_info.finderFlags) = "Red"

\* C8: edit-then-encode.  After an aggregate is read from 32 bytes b and both
\* set_color(c) and set_has_custom_icon(v) have been applied, in either order,
\* writing it appends b with bit 0x04 of byte 8 replaced by v and bits 0x0e of
\* byte 9 replaced by the code of c, every other bit as in b; from 32 zero
\* bytes with Blue and true that is byte 8 = 0x04, byte 9 = 0x08, rest zero.
C8_EditThenEncode ==
  [][\A k \in Aggregates :
       (Write(k) /\ res.ok /\ res.op = k /\ lastColor # <<>> /\ lastIcon # <<>>) =>
         LET b == Decoded
             Codes == [c \in OptLabelColor |->
                         CASE c = "None" -> 0 [] c = "Gray" -> 2 [] c = "Green" -> 4
                           [] c = "Purple" -> 6 [] c = "Blue" -> 8
                           [] c = "Yellow" -> 10 [] c = "Red" -> 12
                           [] c = "Orange" -> 14]
             b8 == b[9] - 4 * ((b[9] \div 4) % 2) + (IF lastIcon[1] THEN 4 ELSE 0)
             b9 == 16 * (b[10] \div 16) + Codes[lastColor[1]] + (b[10] % 2)
             edited == [i \in 1 .. RecLen |->
                          IF i = 9 THEN b8 ELSE IF i = 10 THEN b9 ELSE b[i]]
         IN /\ out' = out \o edited
            /\ (b = [i \in 1 .. RecLen |-> 0] /\ lastColor = <<"Blue">>
                  /\ lastIcon = <<TRUE>>)
                 => out' = out \o [i \in 1 .. RecLen |->
                                     IF i = 9 THEN 4 ELSE IF i = 10 THEN 8 ELSE 0]]_vars

\* scenario B: Blue and the custom icon set on a file record read from 32 zero
\* bytes, then written
C8_Witness ==
  /\ kind = "FinderInfoFile"
  /\ res.ok
  /\ input = Zeros(RecLen)
  /\ lastColor = <<"Blue">>
  /\ lastIcon = <<TRUE>>
  /\ Len(out) >= RecLen
  /\ SubSeq(out, Len(out) - RecLen + 1, Len(out)) = FINDERINFO_XATTR_RED_BLUE_FOO_ICON

\* C9: default construction.  A default FinderInfoFile / FinderInfoFolder has
\* every field zero and writes 32 zero bytes; a record read from 32 zero bytes
\* reports no custom icon and no color and writes the same 32 zero bytes.
C9_Default ==
  [][LET z4 == <<0, 0, 0, 0>>
         pt == [v |-> 0, h |-> 0]
         z32 == [i \in 1 .. RecLen |-> 0]
         fresh == res.op = "none" /\ Untouched
     IN /\ (kind = "FinderInfoFile" /\ fresh) =>
             rec = [file_info |->
                      [fileType |-> z4, fileCreator |-> z4, finderFlags |-> 0,
                       location |-> pt, reservedField |-> 0],
                    extended_file_info |->
                      [reserved1 |-> z4, extendedFinderFlags |-> 0, reserved2 |-> 0,
                       putAwayFolderID |-> 0]]
        /\ (kind = "FinderInfoFolder" /\ fresh) =>
             rec = [folder_info |->
                      [windowBounds |-> [top |-> 0, left |-> 0, bottom |-> 0, right |-> 0],
                       finderFlags |-> 0, location |-> pt, reservedField |-> 0],
                    extended_folder_info |->
                      [scrollPosition |-> pt, reserved1 |-> 0, extendedFinderFlags |-> 0,
                       reserved2 |-> 0, putAwayFolderID |-> 0]]
        /\ \A k \in Aggregates :
             /\ (Write(k) /\ fresh) => out' = out \o z32
             /\ (Write(k) /\ res.ok /\ res.op = k /\ Untouched /\ Decoded = z32) =>
                  /\ ~has_custom_icon(FlagsOf(k, rec))
                  /\ color(FlagsOf(k, rec)) = "None"
                  /\ out' = out \o z32]_vars

\* a default FinderInfoFolder has been written
C9_Witness ==
  /\ kind = "FinderInfoFolder"
  /\ res.op = "none"
  /\ Untouched
  /\ Len(out) >= RecLen

\* C10: size invariant.  Writing an info struct appends exactly 16 bytes and
\* writing an aggregate exactly 32; a successful read of an info struct
\* advances the cursor by exactly 16 and of an aggregate by exactly 32, so
\* bytes beyond the record stay unread.
C10_Sizes ==
  [][/\ \A k \in Infos :
          /\ Write(k) => (Len(out') = Len(out) + 16 /\ SubSeq(out', 1, Len(out)) = out)
          /\ (Read(k) /\ res'.ok) => pos' = pos + 16
     /\ \A k \in Aggregates :
          /\ Write(k) => (Len(out') = Len(out) + 32 /\ SubSeq(out', 1, Len(out)) = out)
          /\ (Read(k) /\ res'.ok) => pos' = pos + 32]_vars

\* an aggregate has been read from an input longer than a record, leaving the
\* rest unread, and written to a sink that already held bytes
C10_Witness ==
  /\ kind \in Aggregates
  /\ res.ok
  /\ pos = 32
  /\ Len(input) > 32
  /\ Len(out) > 32

\* C11: fail-fast field order.  A read over an input shorter than its record
\* fails at the first field, in declaration order, that has fewer bytes left
\* than its width; the 4-byte fileType and fileCreator of FileInfo included.
C11_FailFastOrder ==
  (res.op # "none" /\ ~res.ok) =>
    LET n == Remaining(input, res.from)
        FileInfoFields ==
          << <<"fileType", 4>>, <<"fileCreator", 4>>, <<"finderFlags", 2>>,
             <<"location", 4>>, <<"reservedField", 2>> >>
        ExtendedFileInfoFields ==
          << <<"reserved1", 8>>, <<"extendedFinderFlags", 2>>, <<"reserved2", 2>>,
             <<"putAwayFolderID", 4>> >>
        FolderInfoFields ==
          << <<"windowBounds", 8>>, <<"finderFlags", 2>>, <<"location", 4>>,
             <<"reservedField", 2>> >>
        ExtendedFolderInfoFields ==
          << <<"scrollPosition", 4>>, <<"reserved1", 4>>,
             <<"extendedFinderFlags", 2>>, <<"reserved2", 2>>,
             <<"putAwayFolderID", 4>> >>
        fields ==
          CASE res.op = "FileInfo" -> FileInfoFields
            [] res.op = "ExtendedFileInfo" -> ExtendedFileInfoFields
            [] res.op = "FolderInfo" -> FolderInfoFields
            [] res.op = "ExtendedFolderInfo" -> ExtendedFolderInfoFields
            [] res.op = "FinderInfoFile" -> FileInfoFields \o ExtendedFileInfoFields
            [] res.op = "FinderInfoFolder" -> FolderInfoFields \o ExtendedFolderInfoFields
        end == [i \in 0 .. Len(fields) |->
                  IF i = 0 THEN 0
                  ELSE 4 * Cardinality({j \in 1 .. i : fields[j][2] = 4})
                         + 2 * Cardinality({j \in 1 .. i : fields[j][2] = 2})
                         + 8 * Cardinality({j \in 1 .. i : fields[j][2] = 8})]
        short == {i \in 1 .. Len(fields) : end[i] > n}
    IN /\ short # {}
       /\ \E i \in short : (\A j \in short : i <= j) /\ res.at = fields[i][1]


\* the flag names in a rendering of FinderFlags or ExtendedFinderFlags
FlagList(rendering) == rendering.fields[2][2]
Names(list) == {list[i] : i \in 1 .. Len(list)}

\* C12: extended-flags validity.  With bit 0x8000 (flags are invalid) set, the
\* other extended bits are ignored: has_custom_badge() and has_routing_info()
\* are false and the rendering names neither bit 0x0100 nor bit 0x0004.
C12_InvalidIgnored ==
  [][(Fmt /\ kind = "ExtendedFinderFlags" /\ rec >= 32768) =>
       /\ ~has_custom_badge(rec)
       /\ ~has_routing_info(rec)
       /\ Names(FlagList(shown')) \subseteq {"kExtendedFlagsAreInvalid"}]_vars

\* C13: write-filetype keeps the rest of the record.  When the path's 32-byte
\* record is read, the record written equals it except offsets 0..3, which
\* hold the new value; when the read fails and the path is no directory, the
\* record written is zero except offsets 0..3; for a directory, or a value
\* that is not 4 bytes long, nothing is written.
C13_WriteFiletype ==
  [][\A value \in CliValues, getOk \in BOOLEAN, setOk \in BOOLEAN :
       WriteFiletype(value, getOk, setOk) =>
         /\ (isDir \/ Len(value) # 4) => (cli'.wrote = <<>> /\ attr' = attr)
         /\ cli'.wrote # <<>> =>
              /\ attr' = cli'.wrote[1]
              /\ Len(attr') = 32
              /\ \A i \in 1 .. 4 : attr'[i] = value[i]
              /\ \A i \in 5 .. 32 :
                   attr'[i] = IF getOk /\ Len(attr) = 32 THEN attr[i] ELSE 0]_vars

\* "slnk" has been written over a record whose other 28 bytes are all nonzero
C13_Witness ==
  /\ cli.exit = "ok"
  /\ ~isDir
  /\ attr = [i \in 1 .. 32 |-> IF i <= 4 THEN <<115, 108, 110, 107>>[i] ELSE i]

\* C14: get-after-set over any sequence of setter calls.  color() is the
\* argument of the latest set_color call and has_custom_icon() the argument of
\* the latest set_has_custom_icon call; a call of one setter leaves the other
\* getter's answer as it was, so without a call the initial answer stands.
\* A call that repeats the latest argument of its setter changes nothing, and
\* the two setters applied in either order give the same flags.
C14_GetAfterSet ==
  [][LET old == FlagsOf(kind, rec)
         new == FlagsOf(kind, rec')
         Colors == <<"None", "Gray", "Green", "Purple", "Blue", "Yellow", "Red", "Orange">>
         Color(f) == Colors[((f \div 2) % 8) + 1]
         Icon(f) == (f \div 1024) % 2 = 1
     IN /\ lastColor' # <<>> => Color(new) = lastColor'[1] /\ color(new) = lastColor'[1]
        /\ lastIcon' # <<>> => Icon(new) = lastIcon'[1] /\ has_custom_icon(new) = lastIcon'[1]
        /\ lastColor' = lastColor => Color(new) = Color(old)
        /\ lastIcon' = lastIcon => Icon(new) = Icon(old)
        /\ (lastColor' = lastColor /\ lastIcon' = lastIcon) => new = old
        /\ (lastColor' # <<>> /\ lastIcon' # <<>>) =>
             set_color(set_has_custom_icon(old, lastIcon'[1]), lastColor'[1])
               = set_has_custom_icon(set_color(old, lastColor'[1]), lastIcon'[1])]_vars

\* the icon bit has been set on flags that already had it, after the color of
\* flags with every bit set was cleared
C14_Witness ==
  /\ kind = "FinderFlags"
  /\ lastColor = <<"None">>
  /\ lastIcon = <<TRUE>>
  /\ rec = 65535 - 14

\* whether bit number n of the 16-bit value x is set
Bit(x, n) == (x \div (2 ^ n)) % 2 = 1

\* C15: ExtendedFinderFlags rendering names each set flag by its own name.
\* The flag list is "kExtendedFlagsAreInvalid" iff bit 0x8000 is set, then
\* "kExtendedFlagHasCustomBadge" iff bit 0x0100 is set, then
\* "kExtendedFlagHasRoutingInfo" iff bit 0x0004 is set, and nothing else.
C15_OwnNames ==
  [][(Fmt /\ kind = "ExtendedFinderFlags") =>
       FlagList(shown') =
         Push(Push(Push(<<>>,
           Bit(rec, 15), "kExtendedFlagsAreInvalid"),
           Bit(rec, 8), "kExtendedFlagHasCustomBadge"),
           Bit(rec, 2), "kExtendedFlagHasRoutingInfo")]_vars

\* C16: FinderFlags rendering is deterministic and ordered.  The flag list is
\* the color name, if the color field holds a color, then the names of the
\* set bits among 0x0040, 0x0080, 0x0100, 0x0400, 0x0800, 0x1000, 0x2000,
\* 0x4000, 0x8000 in that order; it is a function of the 16-bit value, which
\* the rendering shows as "raw" and leaves as it was.
C16_FlagsRendering ==
  [][(Fmt /\ kind = "FinderFlags") =>
       LET Colors == <<"Gray", "Green", "Purple", "Blue", "Yellow", "Red", "Orange">>
           code == (rec \div 2) % 8
           Named == << <<6, "kIsShared">>, <<7, "kHasNoINITs">>, <<8, "kHasBeenInited">>,
                       <<10, "kHasCustomIcon">>, <<11, "kIsStationery">>,
                       <<12, "kNameLocked">>, <<13, "kHasBundle">>,
                       <<14, "kIsInvisible">>, <<15, "kIsAlias">> >>
           Set == SelectSeq(Named, LAMBDA e : Bit(rec, e[1]))
           Expected == (IF code = 0 THEN <<>> ELSE <<Colors[code]>>)
                         \o [i \in 1 .. Len(Set) |-> Set[i][2]]
       IN /\ FlagList(shown') = Expected
          /\ shown'.fields[1] = <<"raw", rec>>
          /\ shown'.name = "FinderFlags"
          /\ rec' = rec]_vars

\* the flags of a red, stationery, name-locked alias have been rendered
C16_Witness ==
  /\ kind = "FinderFlags"
  /\ rec = 32768 + 4096 + 2048 + 12
  /\ shown # <<>>
  /\ FlagList(shown) = <<"Red", "kIsStationery", "kNameLocked", "kIsAlias">>

ExtendedInfos == {"ExtendedFileInfo", "ExtendedFolderInfo"}
FieldNames(rendering) == {rendering.fields[i][1] : i \in 1 .. Len(rendering.fields)}
Reserved1Zero(k, r) == IF k = "ExtendedFileInfo" THEN r.reserved1 = Zeros(4) ELSE r.reserved1 = 0

\* C17 as stated: each reserved field on its own.  The rendering of an
\* ExtendedFileInfo or ExtendedFolderInfo has a reserved1 field iff reserved1
\* is nonzero, and a reserved2 field iff reserved2 is nonzero.
C17_EachReserved ==
  [][(Fmt /\ kind \in ExtendedInfos) =>
       /\ "reserved1" \in FieldNames(shown') <=> ~Reserved1Zero(kind, rec)
       /\ "reserved2" \in FieldNames(shown') <=> rec.reserved2 # 0]_vars

\* C17 amended: the reserved fields together.  The rendering has neither
\* reserved field when reserved1 and reserved2 are both zero, and has both,
\* each with its value, when at least one of them is nonzero; rendering
\* leaves the value as it was, and writing a value that was read appends the
\* 16 bytes it was read from, rendered or not.
C17_ReservedTogether ==
  [][/\ (Fmt /\ kind \in ExtendedInfos) =>
          /\ IF Reserved1Zero(kind, rec) /\ rec.reserved2 = 0
             THEN FieldNames(shown') \cap {"reserved1", "reserved2"} = {}
             ELSE /\ \E i \in 1 .. Len(shown'.fields) :
                       shown'.fields[i][1] = "reserved1"
                         /\ shown'.fields[i][2] = rec.reserved1
                  /\ \E i \in 1 .. Len(shown'.fields) :
                       shown'.fields[i][1] = "reserved2"
                         /\ shown'.fields[i][2] = rec.reserved2
          /\ rec' = rec
          /\ out' = out
     /\ \A k \in ExtendedInfos :
          (Write(k) /\ res.ok /\ res.op = k) =>
            out' = out \o SubSeq(input, res.from + 1, res.from + DebugLen)]_vars

\* an ExtendedFileInfo with a nonzero reserved1 and a zero reserved2 has been
\* rendered with both reserved fields and written back
C17_Witness ==
  /\ kind = "ExtendedFileInfo"
  /\ rec.reserved1 # Zeros(4)
  /\ rec.reserved2 = 0
  /\ shown # <<>>
  /\ FieldNames(shown) = {"reserved1", "extendedFinderFlags", "reserved2", "putAwayFolderID"}
  /\ out = input

====
